---- MODULE Spec2Model ----
(***************************************************************************)
(* Model of the YottaReal chat front end:                                  *)
(*   - the HTTP client module (sendMessage, checkHealth),                  *)
(*   - the ChatInterface component (messages, uploads, session cleanup,    *)
(*     citation rendering, clipboard copy).                                *)
(* Two versions of the component are in the source tree; impl names the    *)
(* one an instance runs:                                                   *)
(*   "components" : src/frontend/src/components/ChatInterface.js           *)
(*   "services"   : src/frontend/src/services/api.js, lines 128-761        *)
(* Texts are sequences of one-character strings; JavaScript indices are    *)
(* 0-based, sequence positions 1-based.  An instance is followed until it  *)
(* unmounts or its page unloads; its state is discarded then, and what     *)
(* its handlers in progress and the backend do afterwards is not part of   *)
(* the model.                                                              *)
(***************************************************************************)
EXTENDS Integers, Sequences, FiniteSets, TLC

VARIABLES
  \* ---- HTTP client module (services/api.js 1-67)
  apiCall,        \* the call of sendMessage / checkHealth in progress
  apiRequests,    \* requests the current call asked the axios instance to make
  apiOutcome,     \* how the current call settled: returned value or thrown error
  \* ---- text functions applied to one text
  text,           \* the message text given to the text functions
  messageIndex,   \* the index the text is rendered under
  textDone,       \* which of the text functions have run: "render", "copy"
  parts,          \* result of renderTextWithCitations
  \* ---- ChatInterface: React state
  impl,           \* which version of the component runs
  page,           \* "mounted", "unmounted" (component removed), "unloaded"
  messages,
  input,
  loading,
  sessionId,
  copiedIndex,
  uploading,
  uploadedFiles,
  uploadsRemaining,
  \* ---- ChatInterface: handlers in progress, timers, browser
  effectClosure,  \* uploadedFiles and sessionId as the cleanup effect captured them
  chat,           \* handleSubmit awaiting sendMessage
  upload,         \* handleFileUpload: files, position, uploadResults, request, requests pending
  clears,         \* handleClearUploads calls awaiting their request, by status
  unloadCleanup,  \* cleanup-session requests sent by the cleanup effect
  copyWrites,     \* clipboard writes of handleCopy not yet settled
  copyTimers,     \* pending setCopiedIndex(null) timers, oldest first: message indices
  clipboard,      \* text last written to the clipboard
  highlighted,    \* source list entries whose background is the highlight
  highlightTimers,\* pending un-highlight timers, one entry per timer
  scrolledTo,     \* source list entry last scrolled to
  \* ---- backend
  stored          \* files the backend holds for the session

apiVars  == <<apiCall, apiRequests, apiOutcome>>
textVars == <<text, messageIndex, textDone, parts>>
uiVars   == <<impl, page, messages, input, loading, sessionId, copiedIndex,
              uploading, uploadedFiles, uploadsRemaining, effectClosure, chat,
              upload, clears, unloadCleanup, copyWrites, copyTimers, clipboard,
              highlighted, highlightTimers, scrolledTo, stored>>
vars     == <<apiVars, textVars, uiVars>>

(***************************************************************************)
(* Characters and the citation regex  /\[(\d+)\s*→\s*Page\s*(\d+)\]/g      *)
(***************************************************************************)
Arrow == "→"

IsDigit(c) == c \in {"0", "1", "2", "3", "4", "5", "6", "7", "8", "9"}

IsSpace(c) == c \in {" ", "\t", "\n"}

\* First position >= i of s that holds no digit (Len(s)+1 when none): the
\* greedy run of \d.
RECURSIVE SkipDigits(_, _)
SkipDigits(s, i) ==
  IF i <= Len(s) /\ IsDigit(s[i]) THEN SkipDigits(s, i + 1) ELSE i

\* First position >= i of s that holds no whitespace: the greedy run of \s.
RECURSIVE SkipSpaces(_, _)
SkipSpaces(s, i) ==
  IF i <= Len(s) /\ IsSpace(s[i]) THEN SkipSpaces(s, i + 1) ELSE i

\* s holds the literal lit at position i.
LiteralAt(s, i, lit) ==
  /\ i >= 1
  /\ i + Len(lit) - 1 <= Len(s)
  /\ SubSeq(s, i, i + Len(lit) - 1) = lit

PageWord == <<"P", "a", "g", "e">>

\* MatchAt with (\d+) taking one digit only.
MatchAtMutantLazyDigit(s, i) ==
  LET a == i + 1
      b == IF a <= Len(s) /\ IsDigit(s[a]) THEN a + 1 ELSE a
      c == SkipSpaces(s, b)
      d == c + 1
      e == SkipSpaces(s, d)
      f == e + 4
      g == SkipSpaces(s, f)
      h == SkipDigits(s, g)
      ok == /\ LiteralAt(s, i, <<"[">>)
            /\ b > a
            /\ LiteralAt(s, c, <<Arrow>>)
            /\ LiteralAt(s, e, PageWord)
            /\ h > g
            /\ LiteralAt(s, h, <<"]">>)
  IN  IF ok THEN [end |-> h + 1, group1 |-> SubSeq(s, a, b - 1)]
            ELSE [end |-> 0, group1 |-> <<>>]

\* The regex tried at position i of s: the position after the match and the
\* first capture group, or end = 0 when the regex does not match at i.  Every
\* quantified class is followed by a character outside the class, so the
\* greedy runs are the only way to match and no backtracking changes the
\* result.
MatchAt(s, i) ==
  LET a == i + 1                  \* after "["
      b == SkipDigits(s, a)       \* after (\d+)
      c == SkipSpaces(s, b)       \* after \s*
      d == c + 1                  \* after the arrow
      e == SkipSpaces(s, d)       \* after \s*
      f == e + 4                  \* after Page
      g == SkipSpaces(s, f)       \* after \s*
      h == SkipDigits(s, g)       \* after (\d+)
      ok == /\ LiteralAt(s, i, <<"[">>)
            /\ b > a
            /\ LiteralAt(s, c, <<Arrow>>)
            /\ LiteralAt(s, e, PageWord)
            /\ h > g
            /\ LiteralAt(s, h, <<"]">>)
  IN  IF ok THEN [end |-> h + 1, group1 |-> SubSeq(s, a, b - 1)]
            ELSE [end |-> 0, group1 |-> <<>>]

\* citationRegex.exec(text) with the regex's lastIndex at position from
\* (1-based): the leftmost match starting at or after from, or index = 0.
RECURSIVE RegexExec(_, _)
RegexExec(s, from) ==
  IF from > Len(s) THEN [index |-> 0, end |-> 0, group1 |-> <<>>]
  ELSE LET m == MatchAt(s, from)
       IN  IF m.end # 0 THEN [index |-> from, end |-> m.end, group1 |-> m.group1]
           ELSE RegexExec(s, from + 1)

(***************************************************************************)
(* renderTextWithCitations and handleCopy's marker stripping               *)
(***************************************************************************)
TextPart(chars) == [type |-> "text", children |-> chars]

\* <span key=cite-<match.index> onClick={() => scrollToCitation(citationNumber,
\* messageIndex)}>{fullCitation}</span>
CitationSpan(matchIndex, citationNumber, msgIndex, fullCitation) ==
  [type |-> "span", key |-> <<"cite", matchIndex>>,
   onClick |-> [citationNumber |-> citationNumber, messageIndex |-> msgIndex],
   children |-> fullCitation]

IsSpan(p) == p.type = "span"

\* The while loop of renderTextWithCitations with lastIndex (0-based) = last0;
\* the regex's own lastIndex equals it at every iteration.
RECURSIVE RenderLoop(_, _, _)
RenderLoop(s, last0, msgIndex) ==
  LET m == RegexExec(s, last0 + 1)
      index0 == m.index - 1
      end0 == m.end - 1
  IN  IF m.index = 0
      THEN IF last0 < Len(s) THEN <<TextPart(SubSeq(s, last0 + 1, Len(s)))>> ELSE <<>>
      ELSE (IF index0 > last0 THEN <<TextPart(SubSeq(s, last0 + 1, index0))>> ELSE <<>>)
           \o <<CitationSpan(index0, m.group1, msgIndex, SubSeq(s, m.index, m.end - 1))>>
           \o RenderLoop(s, end0, msgIndex)

renderTextWithCitations(s, msgIndex) ==
  LET ps == RenderLoop(s, 0, msgIndex)
  IN  IF Len(ps) > 0 THEN ps ELSE s

\* text.replace(citationRegex, ''): every match of one left-to-right scan of
\* the original text is deleted; the result is not scanned again.
RECURSIVE ReplaceCitations(_, _)
ReplaceCitations(s, from) ==
  LET m == RegexExec(s, from)
  IN  IF m.index = 0 THEN SubSeq(s, from, Len(s))
      ELSE SubSeq(s, from, m.index - 1) \o ReplaceCitations(s, m.end)

cleanTextMutantFirstOnly(s) ==
  LET m == RegexExec(s, 1)
  IN  IF m.index = 0 THEN s
      ELSE SubSeq(s, 1, m.index - 1) \o SubSeq(s, m.end, Len(s))

cleanText(s) == ReplaceCitations(s, 1)

(***************************************************************************)
(* Bounded texts: concatenations of at most MaxPieces pieces               *)
(***************************************************************************)
MaxPieces == 3

Pieces ==
  { <<"[", "1", Arrow, "P", "a", "g", "e", "2", "]">>,
    <<"[", "1", "2", " ", Arrow, " ", "P", "a", "g", "e", " ", "3", "]">>,
    <<"[", "1">>,
    <<Arrow, "P", "a", "g", "e", "2", "]">>,
    <<"[">>, <<"]">>, <<"2">>, <<" ">>, <<"x">> }

RECURSIVE TextsOf(_)
TextsOf(n) ==
  IF n = 0 THEN {<<>>}
  ELSE LET shorter == TextsOf(n - 1)
       IN  shorter \cup {t \o p : t \in shorter, p \in Pieces}

Texts == TextsOf(MaxPieces)

\* Message indices a text is rendered under.
MessageIndexes == {0, 1}

(***************************************************************************)
(* HTTP client module: sendMessage and checkHealth                         *)
(***************************************************************************)
Null == "<null>"
Undefined == "<undefined>"

NoCall ==
  [fn |-> "none", args |-> <<>>, pc |-> "none", settled |-> "pending",
   settledWith |-> Null]
NoOutcome == [kind |-> "none"]

\* api.post(url, body) / api.get(url) as the axios instance receives them.
PostRequest(url, body) == [method |-> "POST", url |-> url, body |-> body]
GetRequest(url) == [method |-> "GET", url |-> url]

\* The default parameter sessionId = null replaces undefined only.
DefaultNull(v) == IF v = Undefined THEN Null ELSE v

ChatBodyMutantNoSession(messageText, session) ==
  [message |-> messageText, session_id |-> Null]

ChatBody(messageText, session) ==
  [message |-> messageText, session_id |-> DefaultNull(session)]

HealthRequestMutantPost == PostRequest("/health", Null)

HealthRequest == GetRequest("/health")

\* sendMessage up to its await: one api.post('/chat', {message, session_id}).
SendMessageCall(messageText, session) ==
  /\ apiCall.pc \in {"none", "done"}
  /\ apiCall' = [fn |-> "sendMessage", args |-> <<messageText, session>>,
                 pc |-> "awaiting", settled |-> "pending", settledWith |-> Null]
  /\ apiRequests' = <<PostRequest("/chat", ChatBody(messageText, session))>>
  /\ apiOutcome' = NoOutcome

\* checkHealth up to its await: one api.get('/health').
CheckHealthCall ==
  /\ apiCall.pc \in {"none", "done"}
  /\ apiCall' = [fn |-> "checkHealth", args |-> <<>>,
                 pc |-> "awaiting", settled |-> "pending", settledWith |-> Null]
  /\ apiRequests' = <<HealthRequest>>
  /\ apiOutcome' = NoOutcome

\* The axios promise settles: resolved with a response or rejected with an error.
AxiosResolve(response) ==
  /\ apiCall.pc = "awaiting"
  /\ apiCall' = [apiCall EXCEPT !.pc = "settled", !.settled = "resolved",
                                 !.settledWith = response]
  /\ UNCHANGED <<apiRequests, apiOutcome>>

AxiosReject(error) ==
  /\ apiCall.pc = "awaiting"
  /\ apiCall' = [apiCall EXCEPT !.pc = "settled", !.settled = "rejected",
                                 !.settledWith = error]
  /\ UNCHANGED <<apiRequests, apiOutcome>>

ReturnedMutantWholeResponse(response) == [kind |-> "returned", value |-> response]

\* return response.data
Returned(response) == [kind |-> "returned", value |-> response.data]

ThrownMutantSubstitute(error) == [kind |-> "returned", value |-> Null]

\* catch (error) { console.error(...); throw error; }
Thrown(error) == [kind |-> "thrown", error |-> error]

\* The continuation of sendMessage / checkHealth after the await: no further
\* request is made on either path.
ApiContinue ==
  /\ apiCall.pc = "settled"
  /\ apiOutcome' = IF apiCall.settled = "resolved"
                     THEN Returned(apiCall.settledWith)
                     ELSE Thrown(apiCall.settledWith)
  /\ apiCall' = [apiCall EXCEPT !.pc = "done"]
  /\ UNCHANGED apiRequests

(***************************************************************************)
(* ChatInterface: constants, inputs and bounds                             *)
(***************************************************************************)
MAX_UPLOADS_PER_SESSION == 5
MAX_FILE_SIZE_MB == 15
MAX_FILE_SIZE_BYTES == MAX_FILE_SIZE_MB * 1024 * 1024

MaxMessages == 4    \* entries of the message log
MaxSelect == 2      \* files of one selection
MaxClears == 1      \* handleClearUploads calls awaiting their request
MaxTimers == 2      \* pending timers of one kind
MaxInterleaved == 6 \* entries of the message log with three handlers in progress

Impls == {"components", "services"}

SessionIds == {"session-1700000000000-k3j9x2m1q"}

\* Files a user can select: name and size in bytes.
Files ==
  { [name |-> "a.pdf", size |-> MAX_FILE_SIZE_BYTES],
    [name |-> "b.png", size |-> MAX_FILE_SIZE_BYTES + 1] }

RECURSIVE SeqsUpTo(_, _)
SeqsUpTo(S, n) ==
  IF n = 0 THEN {<<>>}
  ELSE LET shorter == SeqsUpTo(S, n - 1)
       IN  shorter \cup {Append(q, x) : q \in shorter, x \in S}

Selections == SeqsUpTo(Files, MaxSelect)

\* The selections told apart by an implementation: components/ChatInterface.js
\* never reads file.size, so there one size stands for all.
SelectionsOf(i) ==
  IF i = "services" THEN Selections
  ELSE SeqsUpTo({file \in Files : file.name = "a.pdf"}, MaxSelect)

\* Values typed into the message field.
Inputs == { <<>>, <<" ">>, <<"h", "i", " ">> }

\* Chat payloads the backend answers with.
TwoCitations ==
  <<"s", "[", "1", Arrow, "P", "a", "g", "e", "2", "]",
    "[", "2", " ", Arrow, " ", "P", "a", "g", "e", " ", "3", "]">>

ChatPayloads ==
  { [response |-> TwoCitations,
     sources |-> <<[citation_number |-> 1], [citation_number |-> 3]>>,
     session_id |-> "session-1700000000000-k3j9x2m1q"],
    [response |-> <<"o", "k">>, sources |-> <<>>, session_id |-> "other"],
    [response |-> <<>>, sources |-> <<>>, session_id |-> "other"] }

ChatErrors == {"Network Error"}

(***************************************************************************)
(* ChatInterface: messages                                                 *)
(***************************************************************************)
\* A message object without its timestamp.  error is FALSE where the object
\* has no error property, sources is <<>> where it has none (the render
\* treats a missing and an empty sources list alike).
Message(role, content, error, sources) ==
  [role |-> role, content |-> content, error |-> error, sources |-> sources]

UserMessage(content) == Message("user", content, FALSE, <<>>)

BotMessage(payload, sources) == Message("assistant", payload.response, FALSE, sources)

ChatErrorMessageMutantNoFlag ==
  Message("assistant", <<"Sorry, I encountered an error. Please try again.">>, FALSE, <<>>)

ChatErrorMessage ==
  Message("assistant", <<"Sorry, I encountered an error. Please try again.">>, TRUE, <<>>)

SystemMessage(content) == Message("system", content, FALSE, <<>>)

SystemErrorMessage(content) == Message("system", content, TRUE, <<>>)

AppendMessageMutantPrepend(prev, message) == <<message>> \o prev

\* setMessages(prev => [...prev, message])
AppendMessageMutantReplaceLast(prev, message) ==
  IF prev = <<>> THEN <<message>> ELSE [prev EXCEPT ![Len(prev)] = message]

AppendMessage(prev, message) == Append(prev, message)

\* input.trim()
RECURSIVE TrimStart(_)
TrimStart(s) ==
  IF s # <<>> /\ IsSpace(Head(s)) THEN TrimStart(Tail(s)) ELSE s

RECURSIVE TrimEnd(_)
TrimEnd(s) ==
  IF s # <<>> /\ IsSpace(s[Len(s)]) THEN TrimEnd(SubSeq(s, 1, Len(s) - 1)) ELSE s

Trim(s) == TrimEnd(TrimStart(s))

(***************************************************************************)
(* ChatInterface: handleFileUpload                                         *)
(***************************************************************************)
NoResponse == [status |-> "none"]

NoChat == [pc |-> "idle", sessionId |-> ""]

NoIndex == -1     \* copiedIndex null

\* A <li> of a sources list: message index and position in the list, 0-based.
Element(i, idx) == [message |-> i, source |-> idx]

NoElement == Element(-1, -1)

NoUpload ==
  [pc |-> "idle", files |-> <<>>, i |-> 0, uploadResults |-> <<>>,
   session_id |-> "", response |-> NoResponse, pending |-> 0]

\* Appends still to come from the handlers in progress, at most.
PendingAppends ==
  (IF chat.pc # "idle" THEN 1 ELSE 0)
  + (IF upload.pc # "idle" THEN 2 ELSE 0)
  + Len(clears)

\* The log has room for n more entries (bound of the model).
\* The log has room for n more appends under a bound on its length.
RoomWithin(bound, n) == Len(messages) + PendingAppends + n <= bound

Room(n) == RoomWithin(MaxMessages, n)

IsOversizeMutantOffByOne(file) == file.size > MAX_FILE_SIZE_BYTES + 1

\* file.size > MAX_FILE_SIZE_BYTES
IsOversize(file) == file.size > MAX_FILE_SIZE_BYTES

\* The first file of the selection that fails the size validation, 0 if none.
RECURSIVE FirstOversize(_, _)
FirstOversize(files, k) ==
  IF k > Len(files) THEN 0
  ELSE IF IsOversize(files[k]) THEN k
  ELSE FirstOversize(files, k + 1)

FlagAfterFinallyMutantKeep(flag) == flag

\* finally { setUploading(false) }, finally { setLoading(false) }
FlagAfterFinally(flag) == FALSE

FileInputDisabledMutantNotWhileUploading ==
  impl = "services" /\ uploadsRemaining = 0

\* disabled={uploading || uploadsRemaining === 0} (services),
\* disabled={uploading} (components)
FileInputDisabled ==
  \/ uploading
  \/ impl = "services" /\ uploadsRemaining = 0

SuccessResult(file, result) ==
  [name |-> file.name, success |-> TRUE, pages |-> result.pages_extracted,
   error |-> Undefined]

FailureResultMutantSuccess(file, error) ==
  [name |-> file.name, success |-> TRUE, pages |-> 0, error |-> error]

FailureResult(file, error) ==
  [name |-> file.name, success |-> FALSE, pages |-> 0, error |-> error]

IsSuccess(r) == r.success

IsFailure(r) == ~r.success

RECURSIVE Names(_)
Names(results) ==
  IF results = <<>> THEN <<>> ELSE <<Head(results).name>> \o Names(Tail(results))

\* The messages a finished batch appends: one for the successes, one for the
\* failures.
BatchMessages(results) ==
  LET ok == SelectSeq(results, IsSuccess)
      bad == SelectSeq(results, IsFailure)
  IN  (IF Len(ok) > 0
         THEN <<SystemMessage(<<"Uploaded", ToString(Len(ok))>>
                              \o (IF impl = "services" THEN Names(ok) ELSE <<>>))>>
         ELSE <<>>)
      \o
      (IF Len(bad) > 0
         THEN <<SystemErrorMessage(<<"Failed to upload", ToString(Len(bad))>>
                                   \o (IF impl = "services" THEN Names(bad) ELSE <<>>))>>
         ELSE <<>>)

BatchErrorMessage == SystemErrorMessage(<<"Failed to upload documents. Please try again.">>)

\* The for loop at file k with the results so far: the next file is sent, or
\* the batch ends: uploadedFiles takes the successes, the messages are
\* appended and the finally block clears uploading.  Nothing in the loop
\* waits for a request of another call of the handler: pending counts the
\* upload requests sent and not yet answered.
UploadLoop(files, k, results, session) ==
  IF k <= Len(files)
  THEN /\ upload' = [pc |-> "awaiting", files |-> files, i |-> k,
                     uploadResults |-> results, session_id |-> session,
                     response |-> NoResponse, pending |-> upload.pending + 1]
       /\ UNCHANGED <<uploadedFiles, messages>>
  ELSE /\ upload' = NoUpload
       /\ uploadedFiles' = uploadedFiles \o SelectSeq(results, IsSuccess)
       /\ messages' = messages \o BatchMessages(results)

\* onChange of the file input: handleFileUpload up to its first await.
SelectFilesWithin(bound, files) ==
  /\ page = "mounted"
  /\ ~FileInputDisabled
  /\ RoomWithin(bound, 2)
  /\ UNCHANGED <<apiVars, textVars>>
  /\ UNCHANGED <<impl, page, input, loading, sessionId, copiedIndex,
                 uploadsRemaining, effectClosure, chat, clears, unloadCleanup,
                 copyWrites, copyTimers, clipboard, highlighted,
                 highlightTimers, scrolledTo, stored>>
  /\ IF Len(files) = 0
     THEN UNCHANGED <<messages, uploading, uploadedFiles, upload>>
     ELSE IF impl = "services" /\ FirstOversize(files, 1) # 0
     THEN /\ messages' = AppendMessage(messages,
                 SystemErrorMessage(<<"exceeds the limit",
                                      files[FirstOversize(files, 1)].name>>))
          /\ UNCHANGED <<uploading, uploadedFiles, upload>>
     ELSE /\ uploading' = TRUE
          /\ UploadLoop(files, 1, <<>>, sessionId)

SelectFiles(files) == SelectFilesWithin(MaxMessages, files)

\* The backend stores the file and answers ok.
BackendUploadAccept ==
  /\ page = "mounted"
  /\ upload.pc = "awaiting"
  /\ stored < MAX_UPLOADS_PER_SESSION
  /\ stored' = stored + 1
  /\ upload' = [upload EXCEPT
        !.pc = "responded",
        !.pending = @ - 1,
        !.response = [status |-> "ok",
                      result |-> [pages_extracted |-> 1,
                                  uploads_remaining |-> MAX_UPLOADS_PER_SESSION - (stored + 1),
                                  session_id |-> upload.session_id]]]
  /\ UNCHANGED <<apiVars, textVars>>
  /\ UNCHANGED <<impl, page, messages, input, loading, sessionId, copiedIndex,
                 uploading, uploadedFiles, uploadsRemaining, effectClosure,
                 chat, clears, unloadCleanup, copyWrites, copyTimers, clipboard,
                 highlighted, highlightTimers, scrolledTo>>

\* The backend answers with an error status; its body is JSON with a detail,
\* or ("badjson") not JSON at all.  Only services reads the body, so the two
\* are told apart for it alone.
BackendUploadReject(kind) ==
  /\ page = "mounted"
  /\ kind = "badjson" => impl = "services"
  /\ upload.pc = "awaiting"
  /\ upload' = [upload EXCEPT
        !.pc = "responded",
        !.pending = @ - 1,
        !.response = [status |-> kind, detail |-> "rejected"]]
  /\ UNCHANGED <<apiVars, textVars>>
  /\ UNCHANGED <<impl, page, messages, input, loading, sessionId, copiedIndex,
                 uploading, uploadedFiles, uploadsRemaining, effectClosure,
                 chat, clears, unloadCleanup, copyWrites, copyTimers, clipboard,
                 highlighted, highlightTimers, scrolledTo, stored>>

\* fetch rejects: network error, or (components) the abort of the request
\* timeout; the file may have reached the backend all the same.
UploadFetchFails(landed) ==
  /\ page = "mounted"
  /\ upload.pc = "awaiting"
  /\ stored' = IF landed /\ stored < MAX_UPLOADS_PER_SESSION THEN stored + 1 ELSE stored
  /\ upload' = [upload EXCEPT !.pc = "responded", !.pending = @ - 1,
                            !.response = [status |-> "neterr"]]
  /\ UNCHANGED <<apiVars, textVars>>
  /\ UNCHANGED <<impl, page, messages, input, loading, sessionId, copiedIndex,
                 uploading, uploadedFiles, uploadsRemaining, effectClosure,
                 chat, clears, unloadCleanup, copyWrites, copyTimers, clipboard,
                 highlighted, highlightTimers, scrolledTo>>

\* handleFileUpload resumes after the await of fetch.
UploadContinue ==
  /\ upload.pc = "responded"
  /\ page = "mounted"
  /\ UNCHANGED <<apiVars, textVars>>
  /\ UNCHANGED <<impl, page, input, loading, sessionId, copiedIndex,
                 effectClosure, chat, clears, unloadCleanup, copyWrites,
                 copyTimers, clipboard, highlighted, highlightTimers,
                 scrolledTo, stored>>
  /\ LET file == upload.files[upload.i]
         r == upload.response
         results == upload.uploadResults
         thrown == impl = "services" /\ r.status \in {"badjson", "neterr"}
         after ==
           IF r.status = "ok" THEN Append(results, SuccessResult(file, r.result))
           ELSE IF impl = "services"
             THEN Append(results, FailureResult(file, r.detail))
             ELSE Append(results, FailureResult(file, Undefined))
         last == ~thrown /\ upload.i = Len(upload.files)
     IN  /\ uploadsRemaining' =
              IF impl = "services" /\ r.status = "ok"
                THEN r.result.uploads_remaining
                ELSE uploadsRemaining
         /\ uploading' = IF thrown \/ last THEN FlagAfterFinally(uploading) ELSE uploading
         /\ IF thrown
            THEN /\ messages' = AppendMessage(messages, BatchErrorMessage)
                 /\ upload' = NoUpload
                 /\ UNCHANGED uploadedFiles
            ELSE UploadLoop(upload.files, upload.i + 1, after, upload.session_id)

(***************************************************************************)
(* ChatInterface: handleClearUploads                                       *)
(***************************************************************************)
RemoveAt(q, k) == SubSeq(q, 1, k - 1) \o SubSeq(q, k + 1, Len(q))

ClearedMessage == SystemMessage(<<"All uploaded documents have been deleted.">>)

ClearFailedMessageMutantNoFlag == SystemMessage(<<"Failed to delete documents. Please try again.">>)

ClearFailedMessage == SystemErrorMessage(<<"Failed to delete documents. Please try again.">>)

\* onClick of the clear button (rendered while uploadedFiles is not empty):
\* handleClearUploads up to its await.  confirmed is the answer to
\* window.confirm.
ClickClearWithin(bound, confirmed) ==
  /\ page = "mounted"
  /\ Len(uploadedFiles) > 0
  /\ Len(clears) < MaxClears
  /\ RoomWithin(bound, 1)
  /\ clears' = IF confirmed
                 THEN Append(clears, [status |-> "pending", session_id |-> sessionId])
                 ELSE clears
  /\ UNCHANGED <<apiVars, textVars>>
  /\ UNCHANGED <<impl, page, messages, input, loading, sessionId, copiedIndex,
                 uploading, uploadedFiles, uploadsRemaining, effectClosure,
                 chat, upload, unloadCleanup, copyWrites, copyTimers, clipboard,
                 highlighted, highlightTimers, scrolledTo, stored>>

ClickClear(confirmed) == ClickClearWithin(MaxMessages, confirmed)

\* The backend deletes the session's files and answers ok.
BackendCleanupOk(k) ==
  /\ page = "mounted"
  /\ k \in 1..Len(clears)
  /\ clears[k].status = "pending"
  /\ clears' = [clears EXCEPT ![k].status = "ok"]
  /\ stored' = 0
  /\ UNCHANGED <<apiVars, textVars>>
  /\ UNCHANGED <<impl, page, messages, input, loading, sessionId, copiedIndex,
                 uploading, uploadedFiles, uploadsRemaining, effectClosure,
                 chat, upload, unloadCleanup, copyWrites, copyTimers, clipboard,
                 highlighted, highlightTimers, scrolledTo>>

\* The cleanup request ends without an ok status: an error status ("notok"),
\* or fetch rejects ("neterr": network error or, in components, the abort of
\* the request timeout).
BackendCleanupFails(k, how) ==
  /\ page = "mounted"
  /\ k \in 1..Len(clears)
  /\ clears[k].status = "pending"
  /\ clears' = [clears EXCEPT ![k].status = how]
  /\ UNCHANGED <<apiVars, textVars>>
  /\ UNCHANGED <<impl, page, messages, input, loading, sessionId, copiedIndex,
                 uploading, uploadedFiles, uploadsRemaining, effectClosure,
                 chat, upload, unloadCleanup, copyWrites, copyTimers, clipboard,
                 highlighted, highlightTimers, scrolledTo, stored>>

ClearedFilesMutantKeep(files) == files

\* setUploadedFiles([])
ClearedFiles(files) == <<>>

\* handleClearUploads resumes after the await of fetch.
ClearContinue(k) ==
  /\ k \in 1..Len(clears)
  /\ clears[k].status # "pending"
  /\ page = "mounted"
  /\ clears' = RemoveAt(clears, k)
  /\ IF clears[k].status = "ok"
     THEN /\ uploadedFiles' = ClearedFiles(uploadedFiles)
          /\ uploadsRemaining' = IF impl = "services"
                                   THEN MAX_UPLOADS_PER_SESSION
                                   ELSE uploadsRemaining
          /\ messages' = AppendMessage(messages, ClearedMessage)
     ELSE /\ messages' = AppendMessage(messages, ClearFailedMessage)
          /\ UNCHANGED <<uploadedFiles, uploadsRemaining>>
  /\ UNCHANGED <<apiVars, textVars>>
  /\ UNCHANGED <<impl, page, input, loading, sessionId, copiedIndex, uploading,
                 effectClosure, chat, upload, unloadCleanup, copyWrites,
                 copyTimers, clipboard, highlighted, highlightTimers,
                 scrolledTo, stored>>

(***************************************************************************)
(* ChatInterface: the cleanup effect (useEffect with [] dependencies)      *)
(***************************************************************************)
\* The effect runs once, after the first render; cleanupSession and
\* handleBeforeUnload read the uploadedFiles and sessionId of that render.
EffectClosure(files, session) == [uploadedFiles |-> files, sessionId |-> session]

\* cleanupSession(): the requests sent after the call.
CleanupSession(sent) ==
  IF Len(effectClosure.uploadedFiles) > 0 /\ effectClosure.sessionId # ""
    THEN Append(sent, [url |-> "/cleanup-session", method |-> "POST",
                       session_id |-> effectClosure.sessionId])
    ELSE sent

\* The instance is gone: its React state, its handlers in progress and its
\* timers go with it.
StateDiscarded ==
  /\ messages' = <<>>
  /\ input' = <<>>
  /\ loading' = FALSE
  /\ copiedIndex' = NoIndex
  /\ uploading' = FALSE
  /\ uploadedFiles' = <<>>
  /\ uploadsRemaining' = MAX_UPLOADS_PER_SESSION
  /\ chat' = NoChat
  /\ upload' = NoUpload
  /\ clears' = <<>>
  /\ copyWrites' = <<>>
  /\ copyTimers' = <<>>
  /\ highlighted' = {}
  /\ highlightTimers' = <<>>
  /\ scrolledTo' = NoElement
  /\ apiCall' = NoCall
  /\ apiRequests' = <<>>
  /\ apiOutcome' = NoOutcome
  /\ UNCHANGED <<impl, sessionId, effectClosure, clipboard, stored>>

\* The beforeunload event: handleBeforeUnload, then the page is gone.
BeforeUnload ==
  /\ page = "mounted"
  /\ unloadCleanup' = IF Len(effectClosure.uploadedFiles) > 0
                        THEN CleanupSession(unloadCleanup)
                        ELSE unloadCleanup
  /\ page' = "unloaded"
  /\ StateDiscarded
  /\ UNCHANGED textVars

\* The component unmounts: the effect's cleanup function removes the listener
\* and calls cleanupSession.
Unmount ==
  /\ page = "mounted"
  /\ unloadCleanup' = CleanupSession(unloadCleanup)
  /\ page' = "unmounted"
  /\ StateDiscarded
  /\ UNCHANGED textVars

(***************************************************************************)
(* ChatInterface: handleSubmit                                             *)
(***************************************************************************)
\* onChange of the message field (disabled while loading).
SetInput(v) ==
  /\ page = "mounted"
  /\ ~loading
  /\ input' = v
  /\ UNCHANGED <<apiVars, textVars>>
  /\ UNCHANGED <<impl, page, messages, loading, sessionId, copiedIndex,
                 uploading, uploadedFiles, uploadsRemaining, effectClosure,
                 chat, upload, clears, unloadCleanup, copyWrites, copyTimers,
                 clipboard, highlighted, highlightTimers, scrolledTo, stored>>

\* The text handleSubmit sends and logs: input (services), input.trim()
\* (components).
SubmittedText(v) == IF impl = "components" THEN Trim(v) ELSE v

SubmitRejectedMutantNever(v) == FALSE

SubmitRejectedMutantNoLimit(v) ==
  \/ Trim(v) = <<>>
  \/ loading

\* handleSubmit returns before doing anything.
SubmitRejected(v) ==
  \/ Trim(v) = <<>>
  \/ loading
  \/ impl = "components" /\ Len(Trim(v)) > 5000

\* sendMessage(text, sessionId) as handleSubmit calls it.  Nothing in
\* sendMessage waits for an earlier call: a call made while another one is in
\* flight posts a second request, and the call followed is then the newer one.
SendMessageFromSubmit(messageText, session) ==
  IF apiCall.pc \in {"none", "done"}
    THEN SendMessageCall(messageText, session)
    ELSE /\ apiCall' = [fn |-> "sendMessage", args |-> <<messageText, session>>,
                        pc |-> "awaiting", settled |-> "pending",
                        settledWith |-> Null]
         /\ apiRequests' = Append(apiRequests,
                                  PostRequest("/chat", ChatBody(messageText, session)))
         /\ apiOutcome' = NoOutcome

\* onSubmit of the form: handleSubmit up to its await of sendMessage.
SubmitWithin(bound) ==
  /\ page = "mounted"
  /\ UNCHANGED textVars
  /\ UNCHANGED <<impl, page, sessionId, copiedIndex, uploading, uploadedFiles,
                 uploadsRemaining, effectClosure, upload, clears,
                 unloadCleanup, copyWrites, copyTimers, clipboard, highlighted,
                 highlightTimers, scrolledTo, stored>>
  /\ IF SubmitRejected(input)
     THEN UNCHANGED <<apiVars, messages, input, loading, chat>>
     ELSE /\ RoomWithin(bound, 2)
          /\ messages' = AppendMessage(messages, UserMessage(SubmittedText(input)))
          /\ input' = <<>>
          /\ loading' = TRUE
          /\ SendMessageFromSubmit(SubmittedText(input), sessionId)
          /\ chat' = [pc |-> "awaiting", sessionId |-> sessionId]

Submit == SubmitWithin(MaxMessages)

\* The chat request succeeds with a payload.
ChatResolves(payload) ==
  /\ page = "mounted"
  /\ chat.pc = "awaiting"
  /\ AxiosResolve([data |-> payload])
  /\ UNCHANGED <<textVars, uiVars>>

\* The chat request fails.
ChatRejects(error) ==
  /\ page = "mounted"
  /\ chat.pc = "awaiting"
  /\ AxiosReject(error)
  /\ UNCHANGED <<textVars, uiVars>>

\* sendMessage resumes and settles.
ChatApiContinue ==
  /\ page = "mounted"
  /\ chat.pc = "awaiting"
  /\ ApiContinue
  /\ UNCHANGED <<textVars, uiVars>>

\* The payload makes handleSubmit throw (components: !response?.response).
InvalidResponse(payload) == impl = "components" /\ payload.response = <<>>

SessionAfterReplyMutantAdopt(current, closure, payload) == payload.session_id

\* The session id after a reply: replaced only when the handler's sessionId is
\* empty (or, in services, 'temp').
SessionAfterReply(current, closure, payload) ==
  IF impl = "services"
    THEN IF closure \in {"", "temp"} THEN payload.session_id ELSE current
    ELSE IF closure = "" /\ payload.session_id # "" THEN payload.session_id
         ELSE current

\* handleSubmit resumes after the await of sendMessage.
SubmitContinue ==
  /\ chat.pc = "awaiting"
  /\ apiCall.pc = "done"
  /\ page = "mounted"
  /\ chat' = NoChat
  /\ loading' = FlagAfterFinally(loading)
  /\ IF apiOutcome.kind = "returned" /\ ~InvalidResponse(apiOutcome.value)
     THEN /\ sessionId' = SessionAfterReply(sessionId, chat.sessionId, apiOutcome.value)
          /\ messages' = AppendMessage(messages, BotMessage(apiOutcome.value, apiOutcome.value.sources))
     ELSE /\ messages' = AppendMessage(messages, ChatErrorMessage)
          /\ UNCHANGED sessionId
  /\ UNCHANGED <<apiVars, textVars>>
  /\ UNCHANGED <<impl, page, input, copiedIndex, uploading, uploadedFiles,
                 uploadsRemaining, effectClosure, upload, clears,
                 unloadCleanup, copyWrites, copyTimers, clipboard, highlighted,
                 highlightTimers, scrolledTo, stored>>

(***************************************************************************)
(* ChatInterface: handleCopy                                               *)
(***************************************************************************)
\* The copy button is rendered for assistant messages that are no error.
HasCopyButton(m) == m.role = "assistant" /\ ~m.error

\* onClick of the copy button of message i (0-based): handleCopy up to the
\* clipboard promise.
ClickCopy(i) ==
  /\ page = "mounted"
  /\ i \in 0..(Len(messages) - 1)
  /\ HasCopyButton(messages[i + 1])
  /\ Len(copyWrites) + Len(copyTimers) < MaxTimers
  /\ copyWrites' = Append(copyWrites,
                          [index |-> i, text |-> cleanText(messages[i + 1].content)])
  /\ UNCHANGED <<apiVars, textVars>>
  /\ UNCHANGED <<impl, page, messages, input, loading, sessionId, copiedIndex,
                 uploading, uploadedFiles, uploadsRemaining, effectClosure,
                 chat, upload, clears, unloadCleanup, copyTimers, clipboard,
                 highlighted, highlightTimers, scrolledTo, stored>>

\* writeText resolves: the then callback sets copiedIndex and starts the timer.
ClipboardWriteDone(k) ==
  /\ k \in 1..Len(copyWrites)
  /\ page = "mounted"
  /\ clipboard' = copyWrites[k].text
  /\ copiedIndex' = copyWrites[k].index
  /\ copyTimers' = Append(copyTimers, copyWrites[k].index)
  /\ copyWrites' = RemoveAt(copyWrites, k)
  /\ UNCHANGED <<apiVars, textVars>>
  /\ UNCHANGED <<impl, page, messages, input, loading, sessionId, uploading,
                 uploadedFiles, uploadsRemaining, effectClosure, chat, upload,
                 clears, unloadCleanup, highlighted, highlightTimers,
                 scrolledTo, stored>>

\* writeText rejects: the catch callback does nothing.
ClipboardWriteFails(k) ==
  /\ k \in 1..Len(copyWrites)
  /\ page = "mounted"
  /\ copyWrites' = RemoveAt(copyWrites, k)
  /\ UNCHANGED <<apiVars, textVars>>
  /\ UNCHANGED <<impl, page, messages, input, loading, sessionId, copiedIndex,
                 uploading, uploadedFiles, uploadsRemaining, effectClosure,
                 chat, upload, clears, unloadCleanup, copyTimers, clipboard,
                 highlighted, highlightTimers, scrolledTo, stored>>

\* The oldest COPY_FEEDBACK_DURATION timer fires (equal delays fire in the
\* order they were started): setCopiedIndex(null).
CopyTimerFires ==
  /\ copyTimers # <<>>
  /\ page = "mounted"
  /\ copyTimers' = Tail(copyTimers)
  /\ copiedIndex' = NoIndex
  /\ UNCHANGED <<apiVars, textVars>>
  /\ UNCHANGED <<impl, page, messages, input, loading, sessionId, uploading,
                 uploadedFiles, uploadsRemaining, effectClosure, chat, upload,
                 clears, unloadCleanup, copyWrites, clipboard, highlighted,
                 highlightTimers, scrolledTo, stored>>

(***************************************************************************)
(* ChatInterface: citation source entries and scrollToCitation             *)
(***************************************************************************)
RECURSIVE JoinChars(_)
JoinChars(chars) ==
  IF chars = <<>> THEN "" ELSE Head(chars) \o JoinChars(Tail(chars))

CitationKeyMutantNoMessage(i, number) == number

\* `${messageIndex}-${citationNumber}`
CitationKey(i, number) == ToString(i) \o "-" \o number

\* The ref callbacks of one render, in render order: every source entry of
\* every non-system message registers itself under its key.
RECURSIVE RefWrites(_, _)
RefWrites(msgs, i) ==
  IF i >= Len(msgs) THEN <<>>
  ELSE LET m == msgs[i + 1]
       IN  (IF m.role # "system"
              THEN [idx \in 1..Len(m.sources) |->
                      [key |-> CitationKey(i, ToString(m.sources[idx].citation_number)),
                       element |-> Element(i, idx - 1)]]
              ELSE <<>>)
           \o RefWrites(msgs, i + 1)

\* citationsRef.current after the render: the last write of a key stays.
CitationsRef(msgs) ==
  LET writes == RefWrites(msgs, 0)
      keys == {writes[k].key : k \in 1..Len(writes)}
      LastWrite(key) ==
        CHOOSE k \in 1..Len(writes) :
          /\ writes[k].key = key
          /\ \A j \in (k + 1)..Len(writes) : writes[j].key # key
  IN  [key \in keys |-> writes[LastWrite(key)].element]

\* The spans of assistant message i (0-based) as rendered.
RenderedSpans(i) ==
  IF messages[i + 1].role = "assistant"
    THEN SelectSeq(renderTextWithCitations(messages[i + 1].content, i), IsSpan)
    ELSE <<>>

\* onClick of span k of message i: scrollToCitation(citationNumber,
\* messageIndex) scrolls to the registered element, highlights it and starts
\* the timer that removes the highlight; without an element it does nothing.
ClickCitation(i, k) ==
  /\ page = "mounted"
  /\ UNCHANGED <<apiVars, textVars>>
  /\ UNCHANGED <<impl, page, messages, input, loading, sessionId, copiedIndex,
                 uploading, uploadedFiles, uploadsRemaining, effectClosure,
                 chat, upload, clears, unloadCleanup, copyWrites, copyTimers,
                 clipboard, stored>>
  /\ i \in 0..(Len(messages) - 1)
  /\ k \in 1..Len(RenderedSpans(i))
  /\ Len(highlightTimers) < MaxTimers
  /\ LET click == RenderedSpans(i)[k].onClick
         key == CitationKey(click.messageIndex, JoinChars(click.citationNumber))
         ref == CitationsRef(messages)
     IN  IF key \in DOMAIN ref
         THEN /\ scrolledTo' = ref[key]
              /\ highlighted' = highlighted \cup {ref[key]}
              /\ highlightTimers' = Append(highlightTimers, ref[key])
         ELSE UNCHANGED <<scrolledTo, highlighted, highlightTimers>>

\* The oldest CITE_HIGHLIGHT_DURATION timer fires: the element's background
\* is reset.
HighlightTimerFires ==
  /\ highlightTimers # <<>>
  /\ page = "mounted"
  /\ highlighted' = highlighted \ {Head(highlightTimers)}
  /\ highlightTimers' = Tail(highlightTimers)
  /\ UNCHANGED <<apiVars, textVars>>
  /\ UNCHANGED <<impl, page, messages, input, loading, sessionId, copiedIndex,
                 uploading, uploadedFiles, uploadsRemaining, effectClosure,
                 chat, upload, clears, unloadCleanup, copyWrites, copyTimers,
                 clipboard, scrolledTo, stored>>

(***************************************************************************)
(* Initial states and specifications                                       *)
(***************************************************************************)
ApiIdle ==
  /\ apiCall = NoCall
  /\ apiRequests = <<>>
  /\ apiOutcome = NoOutcome

TextIdle ==
  /\ text = <<>>
  /\ messageIndex = 0
  /\ textDone = {}
  /\ parts = <<>>

\* The component after its first render and the run of its effects.
UiInit ==
  /\ impl \in Impls
  /\ page = "mounted"
  /\ messages = <<>>
  /\ input = <<>>
  /\ loading = FALSE
  /\ sessionId \in SessionIds
  /\ copiedIndex = NoIndex
  /\ uploading = FALSE
  /\ uploadedFiles = <<>>
  /\ uploadsRemaining = MAX_UPLOADS_PER_SESSION
  /\ effectClosure = EffectClosure(uploadedFiles, sessionId)
  /\ chat = NoChat
  /\ upload = NoUpload
  /\ clears = <<>>
  /\ unloadCleanup = <<>>
  /\ copyWrites = <<>>
  /\ copyTimers = <<>>
  /\ clipboard = <<>>
  /\ highlighted = {}
  /\ highlightTimers = <<>>
  /\ scrolledTo = NoElement
  /\ stored = 0

Init == ApiIdle /\ TextIdle /\ UiInit

\* Uploads, clears, chat and the end of the page.
UploadNext ==
  \/ \E files \in SelectionsOf(impl) : SelectFiles(files)
  \/ BackendUploadAccept
  \/ \E kind \in {"notok", "badjson"} : BackendUploadReject(kind)
  \/ \E landed \in BOOLEAN : UploadFetchFails(landed)
  \/ UploadContinue
  \/ \E confirmed \in BOOLEAN : ClickClear(confirmed)
  \/ \E k \in 1..MaxClears : BackendCleanupOk(k)
  \/ \E k \in 1..MaxClears, how \in {"notok", "neterr"} : BackendCleanupFails(k, how)
  \/ \E k \in 1..MaxClears : ClearContinue(k)
  \/ BeforeUnload
  \/ Unmount

ChatNext ==
  \/ \E v \in Inputs : SetInput(v)
  \/ Submit
  \/ \E payload \in ChatPayloads : ChatResolves(payload)
  \/ \E error \in ChatErrors : ChatRejects(error)
  \/ ChatApiContinue
  \/ SubmitContinue
  \/ \E i \in 0..(MaxMessages - 1) : ClickCopy(i)
  \/ \E k \in 1..MaxTimers : ClipboardWriteDone(k)
  \/ \E k \in 1..MaxTimers : ClipboardWriteFails(k)
  \/ CopyTimerFires
  \/ \E i \in 0..(MaxMessages - 1), k \in 1..2 : ClickCitation(i, k)
  \/ HighlightTimerFires

Next == UploadNext \/ ChatNext

Spec == Init /\ [][Next]_vars

\* The component under uploads, clears and the end of the page only.
UploadSpec == Init /\ [][UploadNext]_vars

\* The handlers that send requests and write the message log: uploads,
\* clears, the end of the page and the chat form.
HandlersNext ==
  \/ UploadNext
  \/ \E v \in Inputs : SetInput(v)
  \/ Submit
  \/ \E payload \in ChatPayloads : ChatResolves(payload)
  \/ \E error \in ChatErrors : ChatRejects(error)
  \/ ChatApiContinue
  \/ SubmitContinue

HandlersSpec == Init /\ [][HandlersNext]_vars

\* Submissions and upload batches whose requests settle and whose handlers
\* resume: a pending request is answered or fails, and the continuation of an
\* await runs once its promise has settled.
BusyNext ==
  \/ \E files \in SelectionsOf("components") : SelectFiles(files)
  \/ BackendUploadAccept
  \/ \E kind \in {"notok", "badjson"} : BackendUploadReject(kind)
  \/ UploadFetchFails(FALSE)
  \/ UploadContinue
  \/ SetInput(<<"h", "i", " ">>)
  \/ Submit
  \/ \E payload \in {p \in ChatPayloads : p.sources = <<>>} : ChatResolves(payload)
  \/ \E error \in ChatErrors : ChatRejects(error)
  \/ ChatApiContinue
  \/ SubmitContinue
  \/ BeforeUnload
  \/ Unmount

UploadSettles ==
  \/ BackendUploadAccept
  \/ \E kind \in {"notok", "badjson"} : BackendUploadReject(kind)
  \/ UploadFetchFails(FALSE)

ChatSettles ==
  \/ \E payload \in {p \in ChatPayloads : p.sources = <<>>} : ChatResolves(payload)
  \/ \E error \in ChatErrors : ChatRejects(error)

BusySpec ==
  /\ Init
  /\ [][BusyNext]_vars
  /\ WF_vars(UploadSettles)
  /\ WF_vars(UploadContinue)
  /\ WF_vars(ChatSettles)
  /\ WF_vars(ChatApiContinue)
  /\ WF_vars(SubmitContinue)

\* A chat submission, a batch of one file and a clear in progress together.
InterleaveNext ==
  \/ \E files \in {q \in SelectionsOf("components") : Len(q) = 1} :
        SelectFilesWithin(MaxInterleaved, files)
  \/ BackendUploadAccept
  \/ BackendUploadReject("notok")
  \/ UploadFetchFails(FALSE)
  \/ UploadContinue
  \/ ClickClearWithin(MaxInterleaved, TRUE)
  \/ \E k \in 1..MaxClears : BackendCleanupOk(k)
  \/ \E k \in 1..MaxClears, how \in {"notok", "neterr"} : BackendCleanupFails(k, how)
  \/ \E k \in 1..MaxClears : ClearContinue(k)
  \/ SetInput(<<"h", "i", " ">>)
  \/ SubmitWithin(MaxInterleaved)
  \/ \E payload \in {p \in ChatPayloads : p.response = <<"o", "k">>} :
        ChatResolves(payload)
  \/ \E error \in ChatErrors : ChatRejects(error)
  \/ ChatApiContinue
  \/ SubmitContinue

InterleaveSpec == Init /\ [][InterleaveNext]_vars

\* Values typed into the message field around the length limit of
\* components/ChatInterface.js: 5001 characters after a space, and 5000
\* characters before a space.
LongText(n) == [k \in 1..n |-> "a"]

FormInputs ==
  Inputs \cup { <<" ">> \o LongText(5001), LongText(5000) \o <<" ">> }

\* The chat form alone, with inputs of every kind its validation tells
\* apart.
FormNext ==
  \/ \E v \in FormInputs : SetInput(v)
  \/ Submit
  \/ \E payload \in ChatPayloads : ChatResolves(payload)
  \/ \E error \in ChatErrors : ChatRejects(error)
  \/ ChatApiContinue
  \/ SubmitContinue

FormSpec == Init /\ [][FormNext]_vars

\* The component under chat, copy and citation clicks only.
ChatSpec == Init /\ [][ChatNext]_vars

(***************************************************************************)
(* Specification of the HTTP client module alone: calls of sendMessage and *)
(* checkHealth with arguments and outcomes drawn from small sets           *)
(***************************************************************************)
ApiMessages == { <<>>, <<"h", "i">>, <<"h", "i", " ">> }

ApiSessions == { Undefined, Null, "", "abc" }

HealthPayload == [status |-> "healthy"]

ApiPayloads == ChatPayloads \cup {HealthPayload}

ApiErrors == { "Network Error", "Request failed with status code 500" }

UiIdle == UiInit /\ impl = "services"

ApiInit == ApiIdle /\ TextIdle /\ UiIdle

CallSendMessage ==
  /\ \E m \in ApiMessages, session \in ApiSessions : SendMessageCall(m, session)
  /\ UNCHANGED <<textVars, uiVars>>

CallCheckHealth ==
  /\ CheckHealthCall
  /\ UNCHANGED <<textVars, uiVars>>

RequestSucceeds ==
  /\ \E data \in ApiPayloads : AxiosResolve([data |-> data, status |-> 200])
  /\ UNCHANGED <<textVars, uiVars>>

RequestFails ==
  /\ \E error \in ApiErrors : AxiosReject(error)
  /\ UNCHANGED <<textVars, uiVars>>

CallSettles ==
  /\ ApiContinue
  /\ UNCHANGED <<textVars, uiVars>>

ApiNext ==
  \/ CallSendMessage
  \/ CallCheckHealth
  \/ RequestSucceeds
  \/ RequestFails
  \/ CallSettles

ApiSpec == ApiInit /\ [][ApiNext]_vars

(***************************************************************************)
(* Specification of the text functions: one text, rendered and copied      *)
(***************************************************************************)
TextInit ==
  /\ ApiIdle
  /\ UiIdle
  /\ text \in Texts
  /\ messageIndex \in MessageIndexes
  /\ textDone = {}
  /\ parts = <<>>

\* message.role === 'assistant' ? renderTextWithCitations(message.content, index)
RenderText ==
  /\ "render" \notin textDone
  /\ parts' = renderTextWithCitations(text, messageIndex)
  /\ textDone' = textDone \cup {"render"}
  /\ UNCHANGED <<text, messageIndex>>
  /\ UNCHANGED <<apiVars, uiVars>>

\* handleCopy(message.content, index) with a clipboard that accepts the write.
CopyText ==
  /\ "copy" \notin textDone
  /\ clipboard' = cleanText(text)
  /\ textDone' = textDone \cup {"copy"}
  /\ UNCHANGED <<text, messageIndex, parts>>
  /\ UNCHANGED apiVars
  /\ UNCHANGED <<impl, page, messages, input, loading, sessionId, copiedIndex,
                 uploading, uploadedFiles, uploadsRemaining, effectClosure,
                 chat, upload, clears, unloadCleanup, copyWrites, copyTimers,
                 highlighted, highlightTimers, scrolledTo, stored>>

TextNext == RenderText \/ CopyText

TextSpec == TextInit /\ [][TextNext]_vars

(***************************************************************************)
(* The marker form [N -> Page X], stated without the scan                  *)
(***************************************************************************)
\* sub is  "[" digits+ spaces* arrow spaces* "Page" spaces* digits+ "]"  with
\* the first number ending before position b.
IsMarkerWithNumberEnd(sub, b) ==
  LET n == Len(sub)
  IN  /\ n >= 9
      /\ sub[1] = "["
      /\ sub[n] = "]"
      /\ b > 2
      /\ \A k \in 2..(b - 1) : IsDigit(sub[k])
      /\ \E c \in b..n :
           /\ \A k \in b..(c - 1) : IsSpace(sub[k])
           /\ sub[c] = Arrow
           /\ \E e \in (c + 1)..n :
                /\ \A k \in (c + 1)..(e - 1) : IsSpace(sub[k])
                /\ e + 3 <= n
                /\ SubSeq(sub, e, e + 3) = PageWord
                /\ \E g \in (e + 4)..(n - 1) :
                     /\ \A k \in (e + 4)..(g - 1) : IsSpace(sub[k])
                     /\ \A k \in g..(n - 1) : IsDigit(sub[k])

IsMarker(sub) == \E b \in 3..Len(sub) : IsMarkerWithNumberEnd(sub, b)

\* The N of a marker.
MarkerNumber(sub) ==
  LET b == CHOOSE b \in 3..Len(sub) : IsMarkerWithNumberEnd(sub, b)
  IN  SubSeq(sub, 2, b - 1)

\* The positions at which a marker starting at position i of s ends.
MarkerEnds(s, i) == {j \in (i + 1)..Len(s) : IsMarker(SubSeq(s, i, j))}

\* All occurrences <<first, last>> (1-based) of a marker in s.
Markers(s) ==
  UNION { {<<i, j>> : j \in MarkerEnds(s, i)} : i \in 1..Len(s) }

ContainsMarker(s) == Markers(s) # {}

\* s from position k on, without the characters inside the occurrences ms.
RECURSIVE Outside(_, _, _)
Outside(s, ms, k) ==
  IF k > Len(s) THEN <<>>
  ELSE (IF \E ij \in ms : ij[1] <= k /\ k <= ij[2] THEN <<>> ELSE <<s[k]>>)
       \o Outside(s, ms, k + 1)

\* s without the characters of its markers.
OutsideMarkers(s) == Outside(s, Markers(s), 1)

RECURSIVE Flatten(_)
Flatten(ps) ==
  IF ps = <<>> THEN <<>> ELSE Head(ps).children \o Flatten(Tail(ps))


(***************************************************************************)
(* Claims about the HTTP client module (ApiSpec)                           *)
(***************************************************************************)
\* C4: a call sendMessage(messageText, sessionId) has made exactly one
\* request, the POST to '/chat' with body {message: messageText, session_id:
\* sessionId} (null for an omitted sessionId), and once the request has
\* succeeded the call returns the response's data, unchanged.
C4_SendMessagePostsChat ==
  apiCall.fn = "sendMessage" =>
    /\ apiRequests =
         << [method |-> "POST", url |-> "/chat",
             body |-> [message |-> apiCall.args[1],
                       session_id |-> IF apiCall.args[2] = Undefined
                                        THEN Null ELSE apiCall.args[2]]] >>
    /\ (apiCall.pc = "done" /\ apiCall.settled = "resolved") =>
         apiOutcome = [kind |-> "returned", value |-> apiCall.settledWith.data]

C4_Witness ==
  /\ apiCall.fn = "sendMessage"
  /\ apiCall.args = << <<"h", "i", " ">>, "abc" >>
  /\ apiCall.pc = "done"
  /\ apiCall.settled = "resolved"
  /\ apiOutcome.kind = "returned"

\* C5: a call checkHealth() has made exactly one request, the GET to
\* '/health', and once the request has succeeded the call returns the
\* response's data, unchanged.
C5_CheckHealthGetsHealth ==
  apiCall.fn = "checkHealth" =>
    /\ apiRequests = << [method |-> "GET", url |-> "/health"] >>
    /\ (apiCall.pc = "done" /\ apiCall.settled = "resolved") =>
         /\ apiOutcome.kind = "returned"
         /\ apiOutcome.value = apiCall.settledWith.data

C5_Witness ==
  /\ apiCall.fn = "checkHealth"
  /\ apiCall.pc = "done"
  /\ apiCall.settled = "resolved"
  /\ apiOutcome = [kind |-> "returned", value |-> HealthPayload]

\* C6: when the request of a call fails, the call has made that one request
\* only (no retry), and it ends by throwing the error the request produced,
\* never by returning a value.
C6_FailurePropagates ==
  apiCall.settled = "rejected" =>
    /\ Len(apiRequests) = 1
    /\ apiCall.pc = "done" =>
         apiOutcome = [kind |-> "thrown", error |-> apiCall.settledWith]

C6_Witness ==
  /\ apiCall.pc = "done"
  /\ apiCall.settled = "rejected"
  /\ apiOutcome.kind = "thrown"
  /\ apiOutcome.error = "Network Error"

(***************************************************************************)
(* Claims about the text functions (TextSpec)                              *)
(***************************************************************************)
SpansOf(ps) == SelectSeq(ps, IsSpan)

\* Position (1-based) in the text of the first character of part k.
PartStart(ps, k) == Len(Flatten(SubSeq(ps, 1, k - 1))) + 1

\* C7: the rendered parts, joined, are the text; the spans are, in
\* left-to-right order, exactly the occurrences of a marker [N -> Page X] in
\* the text, one span per occurrence; each span shows its marker and its
\* click handler is bound to the marker's N and to the message's index.
C7_SpansAreTheMarkers ==
  "render" \in textDone =>
    /\ Flatten(parts) = text
    /\ Len(SpansOf(parts)) = Cardinality(Markers(text))
    /\ \A k \in 1..Len(parts) :
         IsSpan(parts[k]) =>
           LET first == PartStart(parts, k)
               last == first + Len(parts[k].children) - 1
           IN  /\ <<first, last>> \in Markers(text)
               /\ parts[k].key = <<"cite", first - 1>>
               /\ parts[k].onClick.citationNumber = MarkerNumber(parts[k].children)
               /\ parts[k].onClick.messageIndex = messageIndex

C7_Witness ==
  /\ "render" \in textDone
  /\ messageIndex = 1
  /\ Cardinality(Markers(text)) = 2
  /\ Len(parts) = 3
  /\ parts[2].type = "text"
  /\ parts[3].onClick.citationNumber = <<"1", "2">>

\* C9 as claimed: the text written to the clipboard contains no marker.
C9_ClipboardHasNoMarker ==
  "copy" \in textDone => ~ContainsMarker(clipboard)

\* C9 as amended: the text written to the clipboard is the message text
\* without the characters of its markers (every occurrence of a marker in
\* the message text is deleted, and nothing else is).
C9_MarkersDeleted ==
  "copy" \in textDone => clipboard = OutsideMarkers(text)

C9_Witness ==
  /\ "copy" \in textDone
  /\ Cardinality(Markers(text)) = 2
  /\ clipboard = <<"x">>

(***************************************************************************)
(* Claims about uploads, clears and the end of the page (UploadSpec)       *)
(***************************************************************************)
\* v is u with exactly one entry appended.
OneAppended(u, v) ==
  /\ Len(v) = Len(u) + 1
  /\ SubSeq(v, 1, Len(u)) = u

Last(q) == q[Len(q)]

\* C1 as claimed: when the page unloads or the component unmounts while
\* uploadedFiles is not empty, one POST to cleanup-session carrying the
\* session id is sent.
C1_UnloadSendsCleanup ==
  [][ (page = "mounted" /\ page' # "mounted" /\ Len(uploadedFiles) > 0)
        => /\ OneAppended(unloadCleanup, unloadCleanup')
           /\ Last(unloadCleanup').url = "/cleanup-session"
           /\ Last(unloadCleanup').method = "POST"
           /\ Last(unloadCleanup').session_id = sessionId ]_vars

\* C2 as claimed: no upload request is in flight for a session that already
\* holds MAX_UPLOADS_PER_SESSION files.
C2_NoUploadBeyondCap ==
  (impl = "services" /\ upload.pc = "awaiting") => stored < MAX_UPLOADS_PER_SESSION

HasOversize(files) ==
  \E k \in 1..Len(files) : files[k].size > 15 * 1024 * 1024

C10_ClearSucceeds ==
  [][ \A k \in 1..Len(clears) :
        (page' = "mounted" /\ clears[k].status = "ok" /\ clears' = RemoveAt(clears, k))
          => /\ uploadedFiles' = <<>>
             /\ uploadsRemaining' = 5
             /\ OneAppended(messages, messages')
             /\ Last(messages').role = "system"
             /\ ~Last(messages').error ]_vars

C10_Witness ==
  /\ impl = "services"
  /\ Len(messages) = 2
  /\ messages[1].content[1] = "Uploaded"
  /\ messages[2] = ClearedMessage
  /\ uploadedFiles = <<>>
  /\ uploadsRemaining = 5
  /\ clears = <<>>
  /\ stored = 0

(***************************************************************************)
(* Claims about citation clicks (ChatSpec)                                 *)
(***************************************************************************)
\* The positions (0-based) of the sources of message i numbered as the
\* digits number.
SourcesNumbered(i, number) ==
  {idx \in 0..(Len(messages[i + 1].sources) - 1) :
     ToString(messages[i + 1].sources[idx + 1].citation_number) = JoinChars(number)}

\* C8: a click on the k-th marker [N -> Page X] of message i scrolls to and
\* highlights an entry of message i's own source list whose citation_number
\* is N when there is one, and changes nothing when there is none.
C8_ClickTargetsOwnSource ==
  [][ \A i \in 0..(Len(messages) - 1), k \in 1..2 :
        ClickCitation(i, k) =>
          LET number == MarkerNumber(RenderedSpans(i)[k].children)
          IN  IF SourcesNumbered(i, number) # {}
              THEN /\ scrolledTo'.message = i
                   /\ scrolledTo'.source \in SourcesNumbered(i, number)
                   /\ scrolledTo' \in highlighted'
              ELSE UNCHANGED <<scrolledTo, highlighted, highlightTimers>> ]_vars

C8_Witness ==
  /\ Len(messages) = 4
  /\ messages[2].sources # <<>>
  /\ messages[4].sources # <<>>
  /\ scrolledTo = Element(1, 0)
  /\ Element(1, 0) \in highlighted

(***************************************************************************)
(* Claims about the failure of a clear (UploadSpec)                        *)
(***************************************************************************)
\* C11: when a confirmed clear ends without an ok answer (an error status, or
\* the request fails), the handler's continuation leaves uploadedFiles and
\* uploadsRemaining as they were and appends exactly one system message
\* flagged as error.
C11_ClearFails ==
  [][ \A k \in 1..Len(clears) :
        (page' = "mounted" /\ clears[k].status \in {"notok", "neterr"}
           /\ clears' = RemoveAt(clears, k))
          => /\ UNCHANGED <<uploadedFiles, uploadsRemaining>>
             /\ OneAppended(messages, messages')
             /\ Last(messages').role = "system"
             /\ Last(messages').error ]_vars

C11_Witness ==
  /\ Len(messages) = 2
  /\ messages[1].content[1] = "Uploaded"
  /\ messages[2] = ClearFailedMessage
  /\ Len(uploadedFiles) = 2
  /\ uploadsRemaining = IF impl = "services" THEN 3 ELSE 5
  /\ clears = <<>>

(***************************************************************************)
(* Claims about the session id, the message log and the chat form          *)
(* (HandlersSpec)                                                          *)
(***************************************************************************)
\* The session ids carried by the requests sent and not yet forgotten: the
\* chat request, the upload request, the clear requests and the cleanup
\* requests of the end of the page.
RequestSessionIds ==
  {apiRequests[k].body.session_id :
     k \in {j \in 1..Len(apiRequests) : apiRequests[j].method = "POST"}}
  \cup (IF upload.pc = "idle" THEN {} ELSE {upload.session_id})
  \cup {clears[k].session_id : k \in 1..Len(clears)}
  \cup {unloadCleanup[k].session_id : k \in 1..Len(unloadCleanup)}

\* C12: the session id is always the one generated at initialisation (the
\* one the first render's effect saw), and every chat, upload and cleanup
\* request carries it, also after a chat reply with another session_id.
C12_SessionIdConstant ==
  /\ sessionId = effectClosure.sessionId
  /\ sessionId \in SessionIds
  /\ RequestSessionIds \subseteq {sessionId}

\* A reply with another session_id was appended, and a later upload request
\* is in flight.
C12_Witness ==
  /\ Len(messages) >= 2
  /\ messages[2] = BotMessage([response |-> <<"o", "k">>], <<>>)
  /\ upload.pc = "awaiting"
  /\ upload.session_id = sessionId
  /\ sessionId # "other"

\* C13: the message log of a mounted instance only grows at its end: every
\* step keeps the entries it had, in their places and unmodified.
C13_LogAppendOnly ==
  [][ page' = "mounted"
        => /\ Len(messages') >= Len(messages)
           /\ SubSeq(messages', 1, Len(messages)) = messages ]_vars

\* A log written by a submit, its reply, an upload batch and a failed clear.
C13_Witness ==
  /\ page = "mounted"
  /\ Len(messages) = 4
  /\ {messages[k].role : k \in 1..4} = {"user", "assistant", "system"}
  /\ messages[4] = ClearFailedMessage

(***************************************************************************)
(* Claims about the copy feedback and the chat form (ChatSpec)             *)
(***************************************************************************)
\* C14 as claimed: while the timer of the latest successful copy has not
\* fired, copiedIndex is the index of the message that copy was made of; no
\* earlier copy's timer clears it.
C14_FeedbackUntilOwnTimer ==
  copyTimers # <<>> => copiedIndex = Last(copyTimers)

IsChatMessage(m) == m.role # "system"

\* The user and assistant messages of the log, in order.
ChatLog == SelectSeq(messages, IsChatMessage)

\* C15: the user and assistant messages of the log alternate, starting with
\* a user message: each accepted submission has appended one user message and
\* is answered by one assistant message after it.  loading is true exactly
\* while the last submission has no answer yet; the one chat request of that
\* submission carries its text and the session id, and requests are sent at
\* accepted submissions only.  The answer of a failed request is flagged
\* error, the answer of a successful one is the reply (in components an
\* empty reply is answered by the error message).
C15_SubmitAnsweredOnce ==
  /\ [] LET n == Len(ChatLog)
        IN  /\ \A k \in 1..n :
                 ChatLog[k].role = IF k % 2 = 1 THEN "user" ELSE "assistant"
            /\ loading = (n % 2 = 1)
            /\ loading =>
                 apiRequests = <<[method |-> "POST", url |-> "/chat",
                                  body |-> [message |-> ChatLog[n].content,
                                            session_id |-> sessionId]]>>
            /\ (~loading /\ n > 0) =>
                 /\ apiOutcome.kind = "thrown" => ChatLog[n].error
                 /\ apiOutcome.kind = "returned" =>
                      \/ /\ ~ChatLog[n].error
                         /\ ChatLog[n].content = apiOutcome.value.response
                      \/ /\ impl = "components"
                         /\ apiOutcome.value.response = <<>>
                         /\ ChatLog[n].error
  /\ [][ apiRequests' # apiRequests
           => \/ ~loading /\ loading'
              \/ page' # "mounted" ]_vars

\* Two submissions answered, the first by the error message, the second by
\* a reply.
C15_Witness ==
  /\ ~loading
  /\ Len(messages) = 4
  /\ messages[1].role = "user"
  /\ messages[2] = ChatErrorMessage
  /\ messages[4].role = "assistant"
  /\ ~messages[4].error
  /\ messages[4].content = <<"o", "k">>

\* C16: never more than one chat request is in flight, and while loading is
\* true no step of the mounted component sends a chat request or appends a
\* message other than the answer that ends loading.
C16_OneChatRequest ==
  /\ [](Len(apiRequests) <= 1)
  /\ [][ (loading /\ page' = "mounted")
           => /\ apiRequests' = apiRequests
              /\ loading' => messages' = messages ]_vars

\* The second submission of an instance is in flight, after copies and
\* citation clicks.
C16_Witness ==
  /\ loading
  /\ apiCall.pc = "awaiting"
  /\ Len(apiRequests) = 1
  /\ Len(messages) = 3
  /\ input = <<>>

(***************************************************************************)
(* Claims about the validation of the chat form (FormSpec)                 *)
(***************************************************************************)
\* v holds nothing but white space.
IsBlank(v) == \A k \in 1..Len(v) : IsSpace(v[k])

\* C17: a submit whose input is empty or white space only, or, in
\* components/ChatInterface.js, whose trimmed input has more than 5000
\* characters, sends no request and leaves messages, input, loading and
\* sessionId as they were.
C17_InvalidSubmitIgnored ==
  [][ (/\ Submit
       /\ \/ IsBlank(input)
          \/ impl = "components" /\ Len(Trim(input)) > 5000)
        => UNCHANGED <<messages, input, loading, sessionId, apiRequests, apiCall>> ]_vars

\* components: 5001 characters are in the field (after a space), nothing was
\* sent, and an earlier input of 5000 characters was accepted.
C17_Witness ==
  /\ impl = "components"
  /\ Len(Trim(input)) = 5001
  /\ ~loading
  /\ Len(messages) = 2
  /\ Len(messages[1].content) = 5000


(***************************************************************************)
(* Claims about the files of an upload batch (UploadSpec)                  *)
(***************************************************************************)
\* The files of the running batch that the backend answered with an ok status,
\* in order, the file just answered included.
AcceptedInBatch ==
  SelectSeq(upload.uploadResults, IsSuccess)
    \o (IF upload.response.status = "ok"
        THEN <<SuccessResult(upload.files[upload.i], upload.response.result)>>
        ELSE <<>>)

\* The step of handleFileUpload that ends the batch.
BatchEnds == upload.pc = "responded" /\ upload'.pc = "idle" /\ page' = "mounted"

\* C18: when a batch ends, uploadedFiles has gained exactly the files of the
\* batch that the backend accepted, whatever happened to the other files.
C18_AcceptedFilesRecorded ==
  [][BatchEnds => uploadedFiles' = uploadedFiles \o AcceptedInBatch]_vars


\* The files of the running batch that failed, the file just answered included.
FailedInBatch ==
  Len(SelectSeq(upload.uploadResults, IsFailure))
    + (IF upload.response.status = "ok" THEN 0 ELSE 1)

\* C19: components/ChatInterface.js, whatever the answer to a file was: when
\* files remain, the next one is sent with the failures so far kept as
\* failures; at the end of the batch uploadedFiles gains the accepted files
\* only and the last message counts the failed ones.
C19_FailureDoesNotStopBatch ==
  [][ (/\ impl = "components"
       /\ upload.pc = "responded"
       /\ page' = "mounted"
       /\ upload' # upload)
      => IF upload.i < Len(upload.files)
         THEN /\ upload'.pc = "awaiting"
              /\ upload'.files = upload.files
              /\ upload'.i = upload.i + 1
              /\ Len(SelectSeq(upload'.uploadResults, IsFailure)) = FailedInBatch
              /\ uploadedFiles' = uploadedFiles
              /\ uploading'
         ELSE /\ upload'.pc = "idle"
              /\ uploadedFiles' = uploadedFiles \o AcceptedInBatch
              /\ FailedInBatch > 0 =>
                   Last(messages') =
                     SystemErrorMessage(<<"Failed to upload", ToString(FailedInBatch)>>) ]_vars

\* The first file of a batch failed by a rejected fetch and the second one was
\* sent and accepted.
C19_Witness ==
  /\ impl = "components"
  /\ upload.pc = "responded"
  /\ upload.i = 2
  /\ Len(upload.uploadResults) = 1
  /\ IsFailure(upload.uploadResults[1])
  /\ upload.response.status = "ok"
  /\ stored = 1


(***************************************************************************)
(* Claims about the upload counter (UploadSpec)                            *)
(***************************************************************************)
\* No handleFileUpload and no handleClearUploads is between its first and its
\* last statement.
HandlersIdle == upload.pc = "idle" /\ clears = <<>>

\* C20: in services/api.js, while no batch and no clear is in progress,
\* uploadsRemaining is the cap minus the number of entries of uploadedFiles.
C20_RemainingMatchesFiles ==
  (impl = "services" /\ page = "mounted" /\ HandlersIdle)
    => uploadsRemaining = MAX_UPLOADS_PER_SESSION - Len(uploadedFiles)


(***************************************************************************)
(* Claims about a clear during an upload batch (UploadSpec)                *)
(***************************************************************************)
\* C21: once every clear has run to its end, every entry of uploadedFiles is a
\* file the backend still stores for the session, so the list is never longer
\* than the backend's store, also while an upload batch is in progress.
C21_ListedFilesAreStored ==
  (impl = "services" /\ page = "mounted" /\ clears = <<>>)
    => Len(uploadedFiles) <= stored


(***************************************************************************)
(* Claims about appends of handlers that overlap (InterleaveSpec)          *)
(***************************************************************************)
\* The number of messages the end of the running batch appends.
BatchAppends ==
  IF impl = "services" /\ upload.response.status \in {"badjson", "neterr"}
    THEN 1
    ELSE (IF Len(AcceptedInBatch) > 0 THEN 1 ELSE 0)
         + (IF FailedInBatch > 0 THEN 1 ELSE 0)

\* C22: whichever of the chat reply, the end of the batch and the end of the
\* clear arrives, and whatever else is still in progress, the log keeps every
\* message it had and gains exactly the messages of the handler that resumed.
C22_NoAppendLost ==
  [][ page' = "mounted" =>
        /\ (chat.pc = "awaiting" /\ chat'.pc = "idle") =>
             /\ Len(messages') = Len(messages) + 1
             /\ SubSeq(messages', 1, Len(messages)) = messages
             /\ Last(messages').role = "assistant"
        /\ Len(clears') < Len(clears) =>
             /\ Len(messages') = Len(messages) + 1
             /\ SubSeq(messages', 1, Len(messages)) = messages
             /\ Last(messages') \in {ClearedMessage, ClearFailedMessage}
        /\ BatchEnds =>
             /\ Len(messages') = Len(messages) + BatchAppends
             /\ SubSeq(messages', 1, Len(messages)) = messages
             /\ Last(messages').role = "system" ]_vars

\* The clear, started last, has ended first: its message follows the user
\* message of a submission still awaiting its reply, while a batch awaits its
\* turn to resume and the first batch's message is still in the log.
C22_Witness ==
  /\ impl = "components"
  /\ Len(messages) = 3
  /\ messages[1].role = "system"
  /\ messages[2].role = "user"
  /\ messages[3] = ClearedMessage
  /\ chat.pc = "awaiting"
  /\ apiCall.pc = "done"
  /\ upload.pc = "responded"


(***************************************************************************)
(* Claims about the requests of upload batches (UploadSpec)                *)
(***************************************************************************)
\* C23: at most one upload request is unanswered at any time; a request is
\* sent for the first file of a batch only while uploading is false, and while
\* it is true only for the file after the one just answered, of the same
\* selection.
C23_OneUploadRequest ==
  /\ [](upload.pending <= 1)
  /\ [][ (upload'.pc = "awaiting" /\ upload' # upload /\ page' = "mounted")
           => IF uploading
              THEN /\ upload.pc = "responded"
                   /\ upload'.files = upload.files
                   /\ upload'.i = upload.i + 1
              ELSE upload'.i = 1 ]_vars

\* The second file of a batch of two awaits its answer, the first one answered.
C23_Witness ==
  /\ uploading
  /\ upload.pc = "awaiting"
  /\ upload.pending = 1
  /\ upload.i = 2
  /\ Len(upload.files) = 2
  /\ Len(upload.uploadResults) = 1


(***************************************************************************)
(* Claims about the busy flags (BusySpec)                                  *)
(***************************************************************************)
\* C24: when every request settles, loading set by an accepted submit and
\* uploading set by a started batch are each false again later, whether the
\* requests succeeded or failed.
C24_BusyFlagsClear ==
  /\ loading ~> ~loading
  /\ uploading ~> ~uploading

\* A submission got its reply while a batch still waits for an answer that
\* then fails: loading has cleared, uploading is yet to.
C24_Witness ==
  /\ page = "mounted"
  /\ ~loading
  /\ Len(messages) = 2
  /\ messages[2] = ChatErrorMessage
  /\ uploading
  /\ upload.pc = "responded"
  /\ upload.response.status = "neterr"


(***************************************************************************)
(* Claims about the citation highlight (ChatSpec)                          *)
(***************************************************************************)
\* C25: a source entry stays highlighted until the timer of the click that
\* highlighted it fires: every entry with a timer still pending is highlighted.
C25_HighlightUntilOwnTimer ==
  \A k \in 1..Len(highlightTimers) : highlightTimers[k] \in highlighted

====
